---- MODULE Spec2Model ----
(***************************************************************************)
(* A model of app.py, the Streamlit dashboard "Search Before Action".      *)
(*                                                                         *)
(* The script is executed from top to bottom on every user interaction     *)
(* (a "script run").  A run loads the two tables (load_trends behind       *)
(* st.cache_data(ttl=86400), or the dummy data of the except branch),      *)
(* renders the page chosen in the sidebar and then the footer.             *)
(*                                                                         *)
(* Numbers.  A table cell is an exact rational <<n, d>> in lowest terms    *)
(* (d >= 1), or NaN == <<0, 0>> for a missing value.  The sums the code    *)
(* forms are sums of integers in 0..100 over at most 250 rows, which       *)
(* binary floating point represents exactly, so the exact rational is what *)
(* the code computes up to the final rounding of one division.             *)
(***************************************************************************)
EXTENDS Integers, Sequences, FiniteSets, TLC

\* ------------------------------------------------------------------ bounds
\* Longest series drawn as an input of the smoothing step.
MaxLen == 4
\* Rows of a correlation input table.
CorrRows == 3
\* Rows (weeks) of a table in the dashboard runs; the dummy data has 250.
Periods == 4
\* How many different provider responses / random draws are told apart.
NumSeeds == 2
\* The clock advances in quarters of the ttl, at most this many times.
MaxTicks == 4

\* --------------------------------------------------------------- constants
\* kw_list of load_trends, and the columns every page selects.
Brands == <<"Swiggy", "Zomato", "Blinkit">>
BrandSet == {Brands[k] : k \in 1..Len(Brands)}
\* st.cache_data(ttl=86400): seconds.
TTL == 86400
TimeStep == TTL \div 4
\* st.slider("Smoothing Window (weeks):", 1, 8, 4)
MinWindow == 1
MaxWindow == 8
\* related[app_choice]["top"].head(10)
HeadRows == 10

\* ------------------------------------------------------------------ numbers
NaN == <<0, 0>>

RECURSIVE GCD(_, _)
GCD(a, b) == IF b = 0 THEN a ELSE GCD(b, a % b)

Abs(x) == IF x < 0 THEN -x ELSE x

\* The rational n/d (d > 0) in lowest terms.
Frac(n, d) == LET g == GCD(Abs(n), d) IN <<n \div g, d \div g>>

\* An integer score as a cell.
Num(v) == <<v, 1>>

IsNaN(x) == x = NaN

Max(a, b) == IF a >= b THEN a ELSE b
Min(a, b) == IF a <= b THEN a ELSE b

RECURSIVE SumOver(_, _)
\* Sum of f[j] over the finite set of indices S.
SumOver(f, S) ==
    IF S = {} THEN 0
    ELSE LET j == CHOOSE x \in S : TRUE IN f[j] + SumOver(f, S \ {j})

\* ---------------------------------------------------------------- smoothing
\* Series.rolling(window).mean(): min_periods defaults to the window, the
\* window is trailing (closed on the right), and a position is missing unless
\* it has min_periods non-missing observations in its window.
RollingWindowLo(i, w) == Max(1, i - w + 1)

\* The mean of the present cells obs of series s.
MeanOf(s, obs) == Frac(SumOver([j \in obs |-> s[j][1]], obs), Cardinality(obs))

\* Variant: a centred window (rolling(w, center=True)).
RollingMeanAtCentered(s, w, i) ==
    LET lo  == Max(1, i - (w \div 2))
        hi  == Min(Len(s), lo + w - 1)
        obs == {j \in lo..hi : ~IsNaN(s[j])}
    IN  IF Cardinality(obs) >= w THEN MeanOf(s, obs) ELSE NaN

\* Variant: missing cells are skipped instead of counted against min_periods.
RollingMeanAtSkipNaN(s, w, i) ==
    LET obs == {j \in RollingWindowLo(i, w)..i : ~IsNaN(s[j])}
    IN  IF i >= w /\ obs # {} THEN MeanOf(s, obs) ELSE NaN

\* Variant: rolling(w, min_periods=1).
RollingMeanAtMinPeriods1(s, w, i) ==
    LET obs == {j \in RollingWindowLo(i, w)..i : ~IsNaN(s[j])}
    IN  IF Cardinality(obs) >= 1 THEN MeanOf(s, obs) ELSE NaN

\* Variant: the window ends one row earlier (rolling(w, closed="left")).
RollingMeanAtShifted(s, w, i) ==
    LET obs == {j \in RollingWindowLo(i - 1, w)..(i - 1) : ~IsNaN(s[j])}
    IN  IF Cardinality(obs) >= w THEN MeanOf(s, obs) ELSE NaN

\* The smoothed value at row i: nobs counts the present cells of the window
\* and the row is missing when nobs < min_periods (= w).
RollingMeanAt(s, w, i) ==
    LET obs  == {j \in RollingWindowLo(i, w)..i : ~IsNaN(s[j])}
        nobs == Cardinality(obs)
    IN  IF nobs >= w THEN MeanOf(s, obs) ELSE NaN

RollingMean(s, w) == [i \in 1..Len(s) |-> RollingMeanAt(s, w, i)]

\* df_smooth[cols] = df_smooth[cols].rolling(window).mean(): the brand
\* columns are replaced, every other column (the date axis) is kept.
RollingTable(t, w) ==
    [c \in DOMAIN t |-> IF c \in BrandSet THEN RollingMean(t[c], w) ELSE t[c]]

\* -------------------------------------------------------------- correlation
\* DataFrame.corr(): Pearson, pairwise-complete observations, min_periods 1.
\* For a pair the observations are the rows where both columns are present;
\* with n observations
\*    cov = n*Sum(xy) - Sum(x)*Sum(y),  ssx = n*Sum(xx) - Sum(x)^2,  ssy alike
\* and the entry is cov / sqrt(ssx*ssy), missing when that divisor is 0.
\* An entry r is kept exactly as <<sign(r), p, q>> with r*r = p/q in lowest
\* terms; CorrNaN is the missing entry and CorrOne is 1.0.
CorrNaN == <<0, 0, 0>>
CorrOne == <<1, 1, 1>>

Sign(x) == IF x > 0 THEN 1 ELSE IF x < 0 THEN -1 ELSE 0

Pearson(x, y) ==
    LET obs == {j \in 1..Len(x) : ~IsNaN(x[j]) /\ ~IsNaN(y[j])}
        n   == Cardinality(obs)
        sx  == SumOver([j \in obs |-> x[j][1]], obs)
        sy  == SumOver([j \in obs |-> y[j][1]], obs)
        sxy == SumOver([j \in obs |-> x[j][1] * y[j][1]], obs)
        sxx == SumOver([j \in obs |-> x[j][1] * x[j][1]], obs)
        syy == SumOver([j \in obs |-> y[j][1] * y[j][1]], obs)
        cov == n * sxy - sx * sy
        ssx == n * sxx - sx * sx
        ssy == n * syy - sy * sy
    IN  IF n < 1 \/ ssx * ssy = 0 THEN CorrNaN
        ELSE LET f == Frac(cov * cov, ssx * ssy) IN <<Sign(cov), f[1], f[2]>>

BrandIndex(b) == CHOOSE k \in 1..Len(Brands) : Brands[k] = b

\* df[["Swiggy","Zomato","Blinkit"]].corr(): each pair is computed once, for
\* the column order (xi, yi <= xi), and written to both [xi, yi] and [yi, xi].
CorrTable(t) ==
    [a \in BrandSet |-> [b \in BrandSet |->
        LET hi == IF BrandIndex(a) >= BrandIndex(b) THEN a ELSE b
            lo == IF BrandIndex(a) >= BrandIndex(b) THEN b ELSE a
        IN  Pearson(t[hi], t[lo])]]

\* ------------------------------------------------------------ data sources
\* The weekly date axis, as week ordinals.
Dates == [i \in 1..Periods |-> i]

\* A search-interest score of the provider: an integer in 0..100.
Score(k, b, i) == (17 * k + 29 * i + 13 * BrandIndex(b) + 7 * k * i) % 101

\* pytrends.interest_over_time(): indexed by date, one column per keyword and,
\* in some responses, an isPartial column.
InterestOverTime(k, partial) ==
    LET cols == [c \in BrandSet |-> [i \in 1..Periods |-> Num(Score(k, c, i))]]
    IN  IF partial
        THEN [c \in BrandSet \cup {"index", "isPartial"} |->
                 IF c = "index" THEN Dates
                 ELSE IF c = "isPartial" THEN [i \in 1..Periods |-> i = Periods]
                 ELSE cols[c]]
        ELSE [c \in BrandSet \cup {"index"} |->
                 IF c = "index" THEN Dates ELSE cols[c]]

\* data.drop(columns=["isPartial"]) when the column is there.
DropIsPartial(data) ==
    IF "isPartial" \in DOMAIN data
    THEN [c \in DOMAIN data \ {"isPartial"} |-> data[c]]
    ELSE data

\* reset_index(): the index becomes an ordinary column under its name.
ResetIndex(data, name) ==
    [c \in (DOMAIN data \ {"index"}) \cup {name} |->
        IF c = name THEN data["index"] ELSE data[c]]

\* geo.rename(columns={"geoName": "state"})
RenameGeoName(geo) ==
    [c \in (DOMAIN geo \ {"geoName"}) \cup {"state"} |->
        IF c = "state" THEN geo["geoName"] ELSE geo[c]]

\* state_mapping of load_trends.
StateMapping(name) ==
    CASE name = "NCT" -> "Delhi"
      [] name = "Orissa" -> "Odisha"
      [] name = "Uttaranchal" -> "Uttarakhand"
      [] name = "Jammu & Kashmir" -> "Jammu and Kashmir"
      [] name = "Andaman & Nicobar Islands" -> "Andaman & Nicobar"
      [] name = "Dadra and Nagar Haveli" -> "Dadra & Nagar Haveli"
      [] name = "Daman and Diu" -> "Daman & Diu"
      [] name = "Arunanchal Pradesh" -> "Arunachal Pradesh"
      [] OTHER -> name

\* .str.title().str.strip() on the region names the model uses: every word
\* gets a capital first letter, so the "and" written by state_mapping does.
TitleStrip(name) ==
    CASE name = "Jammu and Kashmir" -> "Jammu And Kashmir"
      [] name = "Dadra and Nagar Haveli" -> "Dadra And Nagar Haveli"
      [] name = "Daman and Diu" -> "Daman And Diu"
      [] OTHER -> name

\* The region names the provider reports (geoName).
GeoNames(k) ==
    IF k % 2 = 0
    THEN <<"NCT", "Orissa", "Kerala">>
    ELSE <<"Jammu & Kashmir", "Karnataka", "Uttaranchal">>

\* pytrends.interest_by_region(resolution="REGION", ...): indexed by geoName.
InterestByRegion(k) ==
    [c \in BrandSet \cup {"index"} |->
        IF c = "index" THEN GeoNames(k)
        ELSE [i \in 1..Len(GeoNames(k)) |-> Num(Score(k + 1, c, i))]]

\* What load_trends returns for provider response k.
LoadTrendsResult(k, partial) ==
    LET data == ResetIndex(DropIsPartial(InterestOverTime(k, partial)), "date")
        geo0 == RenameGeoName(ResetIndex(InterestByRegion(k), "geoName"))
        geo  == [geo0 EXCEPT !["state"] =
                    [i \in 1..Len(geo0["state"]) |->
                        TitleStrip(StateMapping(geo0["state"][i]))]]
    IN  [df |-> data, geo_df |-> geo]

\* np.random.randint(low, high, size): integers in low..high-1; the draw of
\* row i under generator state seed.
RandInt(low, high, seed, i) == low + ((31 * seed + 47 * i + 5 * seed * i) % (high - low))

\* The dummy series table of the except branch.
DummyDf(seed) ==
    [c \in BrandSet \cup {"date"} |->
        IF c = "date" THEN Dates
        ELSE IF c = "Swiggy"
             THEN [i \in 1..Periods |-> Num(RandInt(30, 90, seed, i))]
        ELSE IF c = "Zomato"
             THEN [i \in 1..Periods |-> Num(RandInt(40, 95, seed + 1, i))]
        ELSE [i \in 1..Periods |-> Num(RandInt(20, 100, seed + 2, i))]]

\* The dummy region table of the except branch.
DummyGeo ==
    [state   |-> <<"Delhi", "Karnataka", "Maharashtra", "Tamil Nadu", "Uttar Pradesh">>,
     Swiggy  |-> <<Num(70), Num(55), Num(60), Num(80), Num(50)>>,
     Zomato  |-> <<Num(65), Num(70), Num(75), Num(60), Num(55)>>,
     Blinkit |-> <<Num(85), Num(40), Num(50), Num(30), Num(25)>>]

DataWarning == "Could not fetch live Google Trends data. Using dummy data."
QueryWarning == "Could not fetch related queries. Showing placeholders."

\* The provider calls of load_trends, in the order the code makes them.
LoadCalls == <<"TrendReq", "build_payload", "interest_over_time", "interest_by_region">>
\* The provider calls of the try block of the Search Intent page.
IntentCalls == <<"build_payload", "related_queries">>

\* related[app_choice]["top"] of provider response k: rows (query, value).
RelatedTop(choice, k) ==
    [j \in 1..(9 + 2 * k) |-> [query |-> <<choice, j>>, value |-> 100 - j]]

\* DataFrame.head(n)
HeadOf(rows, n) == SubSeq(rows, 1, Min(n, Len(rows)))

PlaceholderQueries ==
    <<<<"Swiggy", "coupon">>, <<"Swiggy", "near me">>,
      <<"Zomato", "pizza">>, <<"Blinkit", "near me">>>>

\* -------------------------------------------------------------------- state
VARIABLES
    pc,          \* position of the script run: idle, load, page, footer, done, crashed
    page,        \* st.sidebar.radio: the page this run renders
    now,         \* the clock, in seconds
    cache,       \* st.cache_data of load_trends: the entries [at, value]
    queries,     \* the provider calls issued so far by this run, in order
    warnings,    \* the st.warning messages shown by this run
    df,          \* the series table of this run
    geo_df,      \* the region table of this run
    loadedFrom,  \* where this run's tables came from: cache, provider, dummy
    window,      \* st.slider of the Trends Over Time page
    app_choice,  \* st.selectbox of the Regional Insights / Search Intent page
    peaks,       \* the three st.metric values of the Overview page
    df_smooth,   \* the smoothed table of the Trends Over Time page
    geo_sorted,  \* the sorted table of the Regional Insights page
    text,        \* the word-cloud input of the Search Intent page
    corr,        \* the matrix of the Stats & Correlations page
    footer,      \* the footer has been rendered by this run
    fetched,     \* history: the last successful load_trends fetch [at, value]
    loaded,      \* history: this run's tables as the load step left them
    first        \* history: the tables of the session's first run [at, from, value]

vars == <<pc, page, now, cache, queries, warnings, df, geo_df, loadedFrom, window,
          app_choice, peaks, df_smooth, geo_sorted, text, corr, footer,
          fetched, loaded, first>>

Pages == {"Overview", "Trends Over Time", "Regional Insights", "Search Intent",
          "Stats & Correlations", "Challenges & Story"}

Windows == MinWindow..MaxWindow
Seeds == 0..(NumSeeds - 1)

\* A name the script has not bound (yet) in this run.
Unset == <<>>

\* The script's names at the start of a run, before the load step.
FreshRun ==
    /\ queries' = <<>>
    /\ warnings' = {}
    /\ df' = Unset
    /\ geo_df' = Unset
    /\ loadedFrom' = "none"
    /\ window' = 0
    /\ app_choice' = "none"
    /\ peaks' = Unset
    /\ df_smooth' = Unset
    /\ geo_sorted' = Unset
    /\ text' = Unset
    /\ corr' = Unset
    /\ footer' = FALSE
    /\ loaded' = Unset

Init ==
    /\ pc = "idle"
    /\ page = "Overview"
    /\ now = 0
    /\ cache = {}
    /\ queries = <<>>
    /\ warnings = {}
    /\ df = Unset
    /\ geo_df = Unset
    /\ loadedFrom = "none"
    /\ window = 0
    /\ app_choice = "none"
    /\ peaks = Unset
    /\ df_smooth = Unset
    /\ geo_sorted = Unset
    /\ text = Unset
    /\ corr = Unset
    /\ footer = FALSE
    /\ fetched = {}
    /\ loaded = Unset
    /\ first = {}

\* ------------------------------------------------------------------- clock
\* Time passes between script runs.
Tick ==
    /\ pc \in {"idle", "done", "crashed"}
    /\ now + TimeStep <= MaxTicks * TimeStep
    /\ now' = now + TimeStep
    /\ UNCHANGED <<pc, page, cache, queries, warnings, df, geo_df, loadedFrom,
                   window, app_choice, peaks, df_smooth, geo_sorted, text, corr,
                   footer, fetched, loaded, first>>

\* ----------------------------------------------------------------- the run
\* A user interaction (first visit, page switch, widget change) starts a
\* script run: set_page_config, the CSS, the title, with page p selected.
Rerun(p) ==
    /\ pc \in {"idle", "done", "crashed"}
    /\ pc' = "load"
    /\ page' = p
    /\ FreshRun
    /\ UNCHANGED <<now, cache, fetched, first>>

\* Variant: no entry is ever served (ttl=0).
IsFreshNever(e, t) == FALSE

\* st.cache_data(ttl=86400): an entry is served while younger than the ttl.
IsFresh(e, t) == t - e.at < TTL

CacheHits(t) == {e \in cache : IsFresh(e, t)}

\* What the load step records about the session's first run.
NoteFirst(from, value) ==
    first' = IF first = {} THEN {[at |-> now, from |-> from, value |-> value]}
             ELSE first

\* try: df, geo_df = load_trends()   -- served from the cache.
LoadCached ==
    /\ pc = "load"
    /\ \E e \in CacheHits(now) :
        /\ df' = e.value.df
        /\ geo_df' = e.value.geo_df
        /\ loaded' = e.value
        /\ NoteFirst("cache", e.value)
    /\ loadedFrom' = "cache"
    /\ pc' = "page"
    /\ UNCHANGED <<page, now, cache, queries, warnings, window, app_choice, peaks,
                   df_smooth, geo_sorted, text, corr, footer, fetched>>

\* Variant: the returned value is not kept.
CacheStoreDropped(value, t) == {}

\* The cache after load_trends has returned value at time t.
CacheStore(value, t) == {[at |-> t, value |-> value]}

\* try: df, geo_df = load_trends()   -- no fresh entry: the body runs, the
\* provider answers (response k), the result is stored and returned.
LoadFetch(k, partial) ==
    /\ pc = "load"
    /\ CacheHits(now) = {}
    /\ LET value == LoadTrendsResult(k, partial)
       IN  /\ df' = value.df
           /\ geo_df' = value.geo_df
           /\ loaded' = value
           /\ cache' = CacheStore(value, now)
           /\ fetched' = {[at |-> now, value |-> value]}
           /\ NoteFirst("provider", value)
    /\ queries' = queries \o LoadCalls
    /\ loadedFrom' = "provider"
    /\ pc' = "page"
    /\ UNCHANGED <<page, now, warnings, window, app_choice, peaks, df_smooth,
                   geo_sorted, text, corr, footer>>

\* Variant: a dummy region table without rows.
DummyTablesNoRegions(seed) ==
    [df |-> DummyDf(seed),
     geo_df |-> [state |-> <<>>, Swiggy |-> <<>>, Zomato |-> <<>>, Blinkit |-> <<>>]]

\* The tables of the except branch, for generator state seed.
DummyTables(seed) == [df |-> DummyDf(seed), geo_df |-> DummyGeo]

\* except Exception: -- no fresh entry and provider call number failing of
\* load_trends raises: nothing is stored, the warning is shown and the dummy
\* tables are built from fresh random draws.
LoadFallback(seed, failing) ==
    /\ pc = "load"
    /\ CacheHits(now) = {}
    /\ LET value == DummyTables(seed)
       IN  /\ df' = value.df
           /\ geo_df' = value.geo_df
           /\ loaded' = value
           /\ NoteFirst("dummy", value)
    /\ queries' = queries \o SubSeq(LoadCalls, 1, failing)
    /\ warnings' = warnings \cup {DataWarning}
    /\ loadedFrom' = "dummy"
    /\ pc' = "page"
    /\ UNCHANGED <<page, now, cache, window, app_choice, peaks, df_smooth,
                   geo_sorted, text, corr, footer, fetched>>

\* ------------------------------------------------------------------- pages
\* Series.max() of a column (missing values are skipped).
ColumnMax(s) ==
    LET vals == {s[i][1] : i \in {j \in 1..Len(s) : ~IsNaN(s[j])}}
    IN  IF vals = {} THEN NaN
        ELSE Num(CHOOSE m \in vals : \A v \in vals : m >= v)

\* --- Overview: the three peak metrics and the line chart of df.
Overview ==
    /\ pc = "page"
    /\ page = "Overview"
    /\ peaks' = [b \in BrandSet |-> ColumnMax(df[b])]
    /\ pc' = "footer"
    /\ UNCHANGED <<page, now, cache, queries, warnings, df, geo_df, loadedFrom,
                   window, app_choice, df_smooth, geo_sorted, text, corr, footer,
                   fetched, loaded, first>>

\* Variant: df_smooth = df (no copy), so the assignment writes through to df.
SmoothStepInPlace(t, w) == [df |-> RollingTable(t, w), df_smooth |-> RollingTable(t, w)]

\* df_smooth = df.copy(); df_smooth[cols] = df_smooth[cols].rolling(w).mean()
\* The names df and df_smooth after the two statements.
SmoothStep(t, w) ==
    LET copy == t
    IN  [df |-> t, df_smooth |-> RollingTable(copy, w)]

\* --- Trends Over Time: the slider, the smoothing step, the line chart.
TrendsOverTime(w) ==
    /\ pc = "page"
    /\ page = "Trends Over Time"
    /\ window' = w
    /\ LET r == SmoothStep(df, w)
       IN  /\ df' = r.df
           /\ df_smooth' = r.df_smooth
    /\ pc' = "footer"
    /\ UNCHANGED <<page, now, cache, queries, warnings, geo_df, loadedFrom,
                   app_choice, peaks, geo_sorted, text, corr, footer,
                   fetched, loaded, first>>

\* The row orders in which column by is descending.
DescendingOrders(g, by) ==
    LET n == Len(g[by])
    IN  {p \in [1..n -> 1..n] :
            /\ \A i, j \in 1..n : i # j => p[i] # p[j]
            /\ \A i, j \in 1..n : i < j => g[by][p[i]][1] >= g[by][p[j]][1]}

TakeRows(g, p) == [c \in DOMAIN g |-> [i \in 1..Len(p) |-> g[c][p[i]]]]

\* geo_sorted = geo_df.sort_values(by=app_choice, ascending=False): a new
\* table; the default sort is not stable, so rows that tie come in any order.
\* The names geo_df and geo_sorted after the statement, one per outcome.
SortStep(g, by) ==
    {[geo_df |-> g, geo_sorted |-> TakeRows(g, p)] : p \in DescendingOrders(g, by)}

\* --- Regional Insights: the selectbox, the sorted bar chart, the styled table.
RegionalInsights(choice) ==
    /\ pc = "page"
    /\ page = "Regional Insights"
    /\ app_choice' = choice
    /\ \E r \in SortStep(geo_df, choice) :
        /\ geo_df' = r.geo_df
        /\ geo_sorted' = r.geo_sorted
    /\ pc' = "footer"
    /\ UNCHANGED <<page, now, cache, queries, warnings, df, loadedFrom, window,
                   peaks, df_smooth, text, corr, footer, fetched, loaded, first>>

\* --- Search Intent, TrendReq(hl="en-IN", tz=330) raises: the call is made
\* before the try block, so the exception ends the script run.
SearchIntentCrash ==
    /\ pc = "page"
    /\ page = "Search Intent"
    /\ queries' = Append(queries, "TrendReq")
    /\ pc' = "crashed"
    /\ UNCHANGED <<page, now, cache, warnings, df, geo_df, loadedFrom, window,
                   app_choice, peaks, df_smooth, geo_sorted, text, corr, footer,
                   fetched, loaded, first>>

\* " ".join(top_queries["query"].dropna().tolist()), as the list of queries.
JoinQueries(rows) == [i \in 1..Len(rows) |-> rows[i].query]

\* --- Search Intent, every provider call answers (response k).
SearchIntent(choice, k) ==
    /\ pc = "page"
    /\ page = "Search Intent"
    /\ app_choice' = choice
    /\ queries' = Append(queries, "TrendReq") \o IntentCalls
    /\ text' = JoinQueries(HeadOf(RelatedTop(choice, k), HeadRows))
    /\ pc' = "footer"
    /\ UNCHANGED <<page, now, cache, warnings, df, geo_df, loadedFrom, window,
                   peaks, df_smooth, geo_sorted, corr, footer, fetched, loaded,
                   first>>

\* --- Search Intent, the try block raises: call number failing of IntentCalls
\* fails, or (failing = Len(IntentCalls) + 1) the provider reports no top
\* queries and .head fails on None.  The warning and the placeholder text.
SearchIntentFallback(choice, failing) ==
    /\ pc = "page"
    /\ page = "Search Intent"
    /\ app_choice' = choice
    /\ queries' = Append(queries, "TrendReq")
                     \o SubSeq(IntentCalls, 1, Min(failing, Len(IntentCalls)))
    /\ warnings' = warnings \cup {QueryWarning}
    /\ text' = PlaceholderQueries
    /\ pc' = "footer"
    /\ UNCHANGED <<page, now, cache, df, geo_df, loadedFrom, window, peaks,
                   df_smooth, geo_sorted, corr, footer, fetched, loaded, first>>

\* corr = df[["Swiggy","Zomato","Blinkit"]].corr()
\* The names df and corr after the statement.
CorrStep(t) == [df |-> t, corr |-> CorrTable(t)]

\* --- Stats & Correlations: the correlation matrix and the formulas.
StatsCorrelations ==
    /\ pc = "page"
    /\ page = "Stats & Correlations"
    /\ LET r == CorrStep(df)
       IN  /\ df' = r.df
           /\ corr' = r.corr
    /\ pc' = "footer"
    /\ UNCHANGED <<page, now, cache, queries, warnings, geo_df, loadedFrom,
                   window, app_choice, peaks, df_smooth, geo_sorted, text, footer,
                   fetched, loaded, first>>

\* --- Challenges & Story: static text.
ChallengesStory ==
    /\ pc = "page"
    /\ page = "Challenges & Story"
    /\ pc' = "footer"
    /\ UNCHANGED <<page, now, cache, queries, warnings, df, geo_df, loadedFrom,
                   window, app_choice, peaks, df_smooth, geo_sorted, text, corr,
                   footer, fetched, loaded, first>>

\* The sidebar footer and the footer card: the end of the script.
Footer ==
    /\ pc = "footer"
    /\ footer' = TRUE
    /\ pc' = "done"
    /\ UNCHANGED <<page, now, cache, queries, warnings, df, geo_df, loadedFrom,
                   window, app_choice, peaks, df_smooth, geo_sorted, text, corr,
                   fetched, loaded, first>>

\* ---------------------------------------------------------- specifications
Next ==
    \/ Tick
    \/ \E p \in Pages : Rerun(p)
    \/ LoadCached
    \/ \E k \in Seeds, partial \in BOOLEAN : LoadFetch(k, partial)
    \/ \E seed \in Seeds, failing \in 1..Len(LoadCalls) : LoadFallback(seed, failing)
    \/ Overview
    \/ \E w \in Windows : TrendsOverTime(w)
    \/ \E choice \in BrandSet : RegionalInsights(choice)
    \/ SearchIntentCrash
    \/ \E choice \in BrandSet, k \in Seeds : SearchIntent(choice, k)
    \/ \E choice \in BrandSet, failing \in 1..(Len(IntentCalls) + 1) :
          SearchIntentFallback(choice, failing)
    \/ StatsCorrelations
    \/ ChallengesStory
    \/ Footer

Spec == Init /\ [][Next]_vars

\* ------------------------------------------- the smoothing step on any input
\* The cell values the input series are drawn from: scores and the missing value.
SmoothCells == {Num(10), Num(100), NaN}

\* Every series of at most n cells.
SeriesUpTo(n) == UNION {[1..m -> SmoothCells] : m \in 0..n}

\* The series of the end-to-end scenario: 10, 20, ..., 100.
RampSeries == [i \in 1..10 |-> Num(10 * i)]

Reverse(s) == [i \in 1..Len(s) |-> s[Len(s) + 1 - i]]

\* A series table on the date axis 1..Len(s) built around series s.
TableAround(s) ==
    [c \in BrandSet \cup {"date"} |->
        IF c = "date" THEN [i \in 1..Len(s) |-> i]
        ELSE IF c = "Swiggy" THEN s
        ELSE IF c = "Zomato" THEN Reverse(s)
        ELSE [i \in 1..Len(s) |-> IF IsNaN(s[i]) THEN NaN ELSE Num(100 - s[i][1])]]

\* A run that has loaded table t and is about to render page p.
AtPage(p, t) ==
    /\ pc = "page"
    /\ page = p
    /\ now = 0
    /\ cache = CacheStore([df |-> t, geo_df |-> DummyGeo], 0)
    /\ queries = LoadCalls
    /\ warnings = {}
    /\ df = t
    /\ geo_df = DummyGeo
    /\ loadedFrom = "provider"
    /\ window = 0
    /\ app_choice = "none"
    /\ peaks = Unset
    /\ df_smooth = Unset
    /\ geo_sorted = Unset
    /\ text = Unset
    /\ corr = Unset
    /\ footer = FALSE
    /\ fetched = {[at |-> 0, value |-> [df |-> t, geo_df |-> DummyGeo]]}
    /\ loaded = [df |-> t, geo_df |-> DummyGeo]
    /\ first = {[at |-> 0, from |-> "provider", value |-> [df |-> t, geo_df |-> DummyGeo]]}

SmoothInit ==
    \E s \in SeriesUpTo(MaxLen) \cup {RampSeries} :
        AtPage("Trends Over Time", TableAround(s))

SmoothNext ==
    \/ \E w \in Windows : TrendsOverTime(w)
    \/ Footer

SmoothSpec == SmoothInit /\ [][SmoothNext]_vars

\* ---------------------------------------- the correlation step on any input
\* The scores the input columns are drawn from.
CorrCells == {Num(0), Num(50), Num(100)}

CorrSeries == [1..CorrRows -> CorrCells]

CorrInit ==
    \E x, y, z \in CorrSeries :
        AtPage("Stats & Correlations",
               [c \in BrandSet \cup {"date"} |->
                   IF c = "date" THEN [i \in 1..CorrRows |-> i]
                   ELSE IF c = "Swiggy" THEN x
                   ELSE IF c = "Zomato" THEN y
                   ELSE z])

CorrNext ==
    \/ StatsCorrelations
    \/ Footer

CorrSpec == CorrInit /\ [][CorrNext]_vars

\* ------------------------------------------------------------------ claims
\* The run has executed its page (and possibly its footer).
PageDone == pc \in {"footer", "done"}
\* The run has executed its load step.
LoadDone == pc \in {"page", "footer", "done", "crashed"}

Dense(s) == \A i \in 1..Len(s) : ~IsNaN(s[i])

\* Every column of table t has n rows.
Rows(t, n) == \A c \in DOMAIN t : Len(t[c]) = n

\* C1: when load_trends raises, the run shows the warning and goes on with a
\* dummy dataset that has a date axis and the three brand columns, and a
\* non-empty region table with the same brand columns; the smoothing and the
\* correlation page compute the same function of the loaded table whether it
\* is live or dummy data.
FallbackKeepsShape ==
    /\ (LoadDone /\ loadedFrom = "dummy") =>
          /\ DataWarning \in warnings
          /\ DOMAIN df = BrandSet \cup {"date"}
          /\ Rows(df, Len(df["date"]))
          /\ DOMAIN geo_df = BrandSet \cup {"state"}
          /\ Len(geo_df["state"]) > 0
          /\ Rows(geo_df, Len(geo_df["state"]))
    /\ (PageDone /\ page = "Trends Over Time") =>
          df_smooth = RollingTable(loaded.df, window)
    /\ (PageDone /\ page = "Stats & Correlations") =>
          corr = CorrTable(loaded.df)

FallbackSmoothed ==
    /\ pc = "done"
    /\ loadedFrom = "dummy"
    /\ page = "Trends Over Time"
    /\ window = 2
    /\ ~IsNaN(df_smooth["Swiggy"][Periods])

\* C2: on a dense brand series of length n the smoothing step keeps the length
\* and the date axis, leaves the first w-1 positions missing and puts the
\* arithmetic mean of the w most recent inputs at every later position (so
\* everything is missing when w > n); 10,20,...,100 with w = 3 gives
\* missing, missing, 20, ..., 90.
TrailingMeanOnDense ==
    PageDone =>
        /\ df_smooth["date"] = df["date"]
        /\ \A b \in BrandSet :
              Dense(df[b]) =>
                 /\ Len(df_smooth[b]) = Len(df[b])
                 /\ \A i \in 1..Len(df[b]) :
                       IF i < window
                       THEN IsNaN(df_smooth[b][i])
                       ELSE /\ ~IsNaN(df_smooth[b][i])
                            /\ df_smooth[b][i][2] > 0
                            /\ df_smooth[b][i][1] * window =
                                  df_smooth[b][i][2] *
                                     SumOver([j \in (i - window + 1)..i |-> df[b][j][1]],
                                             (i - window + 1)..i)
        /\ (df["Swiggy"] = RampSeries /\ window = 3) =>
              df_smooth["Swiggy"] =
                 <<NaN, NaN, Num(20), Num(30), Num(40), Num(50), Num(60),
                   Num(70), Num(80), Num(90)>>

RampSmoothed ==
    /\ PageDone
    /\ df["Swiggy"] = RampSeries
    /\ window = 3
    /\ df_smooth["Swiggy"][3] = Num(20)
    /\ df_smooth["Swiggy"][10] = Num(90)

\* C3: with window 1 the smoothed table equals the input table in every
\* column and at every position, missing values included.
WindowOneIsIdentity ==
    (PageDone /\ window = 1) => df_smooth = df

WindowOneWithMissing ==
    /\ PageDone
    /\ window = 1
    /\ Len(df["Swiggy"]) = 3
    /\ IsNaN(df["Swiggy"][2])
    /\ df["Swiggy"][3] = Num(10)

\* C4: no look-ahead: replacing everything after position i of a brand series
\* by any other continuation (of any length) leaves the smoothed value at
\* position i as it is (looked at right after the page has rendered).
NoLookAhead ==
    pc = "footer" =>
        \A b \in BrandSet : \A i \in 1..Len(df[b]) :
            \A rest \in SeriesUpTo(MaxLen) :
                RollingMeanAt(SubSeq(df[b], 1, i) \o rest, window, i) = df_smooth[b][i]

LookAheadCase ==
    /\ PageDone
    /\ window = 2
    /\ Len(df["Swiggy"]) = 3
    /\ df["Swiggy"] = <<Num(10), Num(100), Num(10)>>
    /\ df_smooth["Swiggy"][2] = Num(55)

\* C5: a smoothed position is missing exactly when it is one of the first
\* w-1 positions or its window holds a missing input; a window with a missing
\* sample is never averaged over its remaining samples.
MissingPropagates ==
    PageDone =>
        \A b \in BrandSet : \A i \in 1..Len(df[b]) :
            IsNaN(df_smooth[b][i]) <=>
               \/ i < window
               \/ \E j \in (i - window + 1)..i : IsNaN(df[b][j])

MissingInsideWindow ==
    /\ PageDone
    /\ window = 2
    /\ df["Swiggy"] = <<Num(10), NaN, Num(100), Num(100)>>
    /\ IsNaN(df_smooth["Swiggy"][3])
    /\ df_smooth["Swiggy"][4] = Num(100)

\* C6: the correlation matrix is symmetric and every diagonal entry is 1.0,
\* also when a brand's series is constant.
CorrSymmetricUnitDiagonal ==
    PageDone =>
        /\ \A a, b \in BrandSet : corr[a][b] = corr[b][a]
        /\ \A a \in BrandSet : corr[a][a] = CorrOne

\* C7 as stated: a run served from the cache leaves the run with the fetched
\* tables and without any provider call.
CachedRunQueriesNothing ==
    (LoadDone /\ loadedFrom = "cache") =>
        /\ \E e \in fetched : df = e.value.df /\ geo_df = e.value.geo_df
        /\ queries = <<>>

\* C7 as amended: once load_trends has returned, the load step of every run
\* less than ttl seconds after that fetch returns the fetched tables and
\* issues no provider call; such a run makes no call of load_trends at all
\* (what it may still issue are the Search Intent page's own calls).
CachedLoadQueriesNothing ==
    /\ [][(pc = "load" /\ fetched # {} /\ \A e \in fetched : now - e.at < TTL) =>
            /\ loadedFrom' = "cache"
            /\ queries' = queries
            /\ \A e \in fetched : df' = e.value.df /\ geo_df' = e.value.geo_df]_vars
    /\ [](loadedFrom = "cache" =>
            \A i \in 1..Len(queries) :
                queries[i] \notin {"interest_over_time", "interest_by_region"})

CachedLaterRun ==
    /\ pc = "done"
    /\ loadedFrom = "cache"
    /\ page = "Search Intent"
    /\ \E e \in fetched : now > e.at /\ now - e.at < TTL /\ df = e.value.df

\* C8: no provider failure is fatal: a script run never ends in an uncaught
\* exception, so it always goes on to its footer.
ProviderFailureNeverFatal == pc # "crashed"

PagesLeaveTablesAlone ==
    PageDone => (df = loaded.df /\ geo_df = loaded.geo_df)

SmoothedCopyDiffers ==
    /\ pc = "done"
    /\ page = "Trends Over Time"
    /\ window = 3
    /\ df_smooth # df
    /\ df = loaded.df

====
